---- MODULE Spec2Model ----
(***************************************************************************)
(* The game-state machine of the Codebreaker web tier (src/web_app/app.py): *)
(* the secrets and game_states collections, and the four API handlers       *)
(* (game-state, submit-guess, create-secret, reset) run by concurrently     *)
(* served requests.  Every database call of a handler is one atomic step;   *)
(* the Python between two database calls is folded into the step before it. *)
(***************************************************************************)
EXTENDS Integers, Sequences, FiniteSets, TLC

\* ------------------------------------------------------------------ bounds

\* Requests the server takes in one behaviour.
MaxRequests == 4
\* Clock ticks a behaviour may take, and the hours one tick advances the clock.
MaxTicks == 1
TickHours == 24
\* The longest guess and the longest secret_phrase field a client sends when
\* the comparison is taken alone (SpecMatch).
MaxGuessLen == 5
MaxPhraseLen == 4
\* Database calls that raise an exception in one behaviour (SpecFault).
MaxFaults == 1
\* Requests each of the two runs handles (SpecTwin).
MaxTwinSteps == 4
\* Upload-audio requests in one behaviour (SpecAudio).
MaxUploads == 3

\* --------------------------------------------------------------- constants

\* timedelta(hours=24) of submit_guess
LockoutHours == 24
\* the attempts a fresh or reset GameState carries
FullAttempts == 3
\* len(new_phrase) < 3 and len(hint) < 5 of create_secret
MinPhraseLen == 3
MinHintLen == 5
\* range(2) of transcribe_audio
TranscribeAttempts == 2

Users == {"u1", "u2"}
\* Requests the server works on at one time (worker threads / processes).
Slots == {1, 2}

\* Python None, for a timestamp, a secret id, a result and a user
NoTime == -1
NoId == 0
NULL == "null"
NoUser == "nobody"
\* Python None for a string value; a string s is held as <<s>>
None == <<>>
Some(s) == <<s>>

\* ------------------------------------------------------------------- texts
\* A text is the sequence of its characters.

DEFAULT_SECRET_PHRASE == <<"O","p","e","n"," ","S","e","s","a","m","e">>
DEFAULT_SECRET_HINT ==
    <<"A"," ","c","l","a","s","s","i","c"," ","p","h","r","a","s","e"," ","t",
      "o"," ","u","n","l","o","c","k"," ","a"," ","s","e","c","r","e","t">>

\* the guess texts a client sends (raw request field "guess")
GuessTexts == { <<" ","O","P","E","N"," ","S","E","S","A","M","E"," ">>,
                <<"a","B","C"," ">> }
\* the "secret_phrase" and "hint" fields a client sends to create-secret
PhraseTexts == { <<" ","A","b","c"," ">>, <<"a","b"," ">>, <<" "," ">> }
HintTexts == { <<" ","h","i","n","t","s">>, <<"h","i","n","t"," ">>, <<>> }

IsSpace(c) == c = " "

\* str.strip(): drop leading and trailing whitespace
Strip(s) ==
    LET keep == {i \in 1..Len(s) : ~IsSpace(s[i])}
        lo == CHOOSE i \in keep : \A j \in keep : i <= j
        hi == CHOOSE i \in keep : \A j \in keep : j <= i
    IN IF keep = {} THEN <<>> ELSE SubSeq(s, lo, hi)

LowerChar(c) ==
    CASE c = "A" -> "a" [] c = "B" -> "b" [] c = "C" -> "c" [] c = "E" -> "e"
      [] c = "M" -> "m" [] c = "N" -> "n" [] c = "O" -> "o" [] c = "P" -> "p"
      [] c = "S" -> "s" [] OTHER -> c

\* str.lower()
Lower(s) == [i \in 1..Len(s) |-> LowerChar(s[i])]

\* a comparison that tells letter case apart (C25 depends on lower())
GuessMatchesExactCase(guess, secret_phrase) == guess = secret_phrase

\* the comparison of submit_guess: guess.lower() == secret_phrase.lower()
\* (guess is the request's text already stripped)
GuessMatches(guess, secret_phrase) == Lower(guess) = Lower(secret_phrase)

\* the characters of the texts compared in SpecMatch, and all texts of at
\* most n of them
Alphabet == {"a", "A", "b", " "}
TextsUpTo(n) == UNION {[1..k -> Alphabet] : k \in 0..n}

\* ------------------------------------------------------------------- state

VARIABLES
    secrets,      \* db.secrets in insertion order; a document's secret_id is its index
    game_states,  \* db.game_states: for each user_uuid its documents in natural order
    user_index,   \* the unique index on game_states.user_uuid exists
    now,          \* the clock, in hours
    req,          \* for each slot the request it serves: handler, inputs, locals, position
    resp,         \* the response the last step sent, if it ended a request
    workers,      \* how many requests the server works on at one time
    taken,        \* how many requests the server has taken
    wrote,        \* history: the request of the slot has written to the store
    marks,        \* history: the mark_secret_solved calls made, in order
    rotations,    \* history: the successful create-secret requests, in order
    trail,        \* history: per user, what the incorrect guesses since the last
                  \* refill of the counter persisted
    guessed,      \* history: per user, what the last guess persisted and what the
                  \* guess before it had persisted
    cmp,          \* one comparison of a guess with a stored phrase, taken alone
    faults,       \* how many database calls have raised an exception
    tw,           \* two runs of the handlers on the same requests, with secrets
                  \* that differ in their phrases only
    audio         \* the upload-audio requests: the one in transcribe_audio, what
                  \* the ML client answered to it, and the status of every
                  \* response sent

vars == <<secrets, game_states, user_index, now, req, resp, workers, taken, wrote,
          marks, rotations, trail, guessed, cmp, faults, tw, audio>>

MaxTime == MaxTicks * TickHours

\* ----------------------------------------------------------- secret store

\* the document create_default_secret inserts (it has no created_by)
DefaultSecretDoc ==
    [secret_phrase |-> DEFAULT_SECRET_PHRASE, hint |-> DEFAULT_SECRET_HINT,
     created_by |-> NoUser, wrong_guesses |-> 0, solved_at |-> NoTime]

\* a new secret that does not record its creator (C20 depends on created_by)
NewSecretDocAnonymous(secret_phrase, hint, creator_uuid) ==
    [secret_phrase |-> secret_phrase, hint |-> hint, created_by |-> NoUser,
     wrong_guesses |-> 0, solved_at |-> NoTime]

\* the document create_new_secret inserts
NewSecretDoc(secret_phrase, hint, creator_uuid) ==
    [secret_phrase |-> secret_phrase, hint |-> hint, created_by |-> creator_uuid,
     wrong_guesses |-> 0, solved_at |-> NoTime]

\* the ids of the documents matching {"solved_at": None}
ActiveIds(S) == {i \in 1..Len(S) : S[i].solved_at = NoTime}

\* a get_active_secret that falls back to the newest secret when all are
\* solved (C28 depends on None being returned then)
GetNewestSecret(S) ==
    IF ActiveIds(S) = {} THEN Len(S)
    ELSE CHOOSE i \in ActiveIds(S) : \A j \in ActiveIds(S) : i <= j

\* get_active_secret: find_one({"solved_at": None}, sort created_at ascending).
\* created_at is taken right before the insert, so it orders as the index does.
get_active_secret(S) ==
    IF ActiveIds(S) = {} THEN NoId
    ELSE CHOOSE i \in ActiveIds(S) : \A j \in ActiveIds(S) : i <= j

\* a mark_secret_solved that matches no document (C8 depends on the update)
MarkNoDocument(S, secret_id, t) == S

\* a mark_secret_solved that reopens a secret already solved (C21 depends on
\* solved_at being set to a time by every call)
MarkToggles(S, secret_id, t) ==
    [S EXCEPT ![secret_id].solved_at = IF @ = NoTime THEN t ELSE NoTime]

\* mark_secret_solved: update_one({"secret_id": id}, $set solved_at = now)
mark_secret_solved(S, secret_id, t) == [S EXCEPT ![secret_id].solved_at = t]

\* an increment_wrong_guesses with $inc 2 (C9 depends on the step of 1)
IncrementByTwo(S, secret_id) == [S EXCEPT ![secret_id].wrong_guesses = @ + 2]

\* increment_wrong_guesses: update_one({"secret_id": id}, $inc wrong_guesses 1)
increment_wrong_guesses(S, secret_id) ==
    [S EXCEPT ![secret_id].wrong_guesses = @ + 1]

\* create_new_secret: insert_one(new_secret)
create_new_secret(S, secret_phrase, hint, creator_uuid) ==
    Append(S, NewSecretDoc(secret_phrase, hint, creator_uuid))

\* ------------------------------------------------------- game state store

\* the fields of a game_states document that the handlers read or write
\* (user_uuid is the key of game_states; created_at/updated_at are never read)
StateFields ==
    {"current_secret_id", "attempts_left", "last_result", "last_guess",
     "can_create_secret", "locked_until"}

\* a fresh state that keeps the permission to create a secret (C15 depends on
\* the reset of can_create_secret)
FreshStateKeepsPermission(secret_id) ==
    [current_secret_id |-> secret_id, attempts_left |-> FullAttempts,
     last_result |-> NULL, last_guess |-> None, can_create_secret |-> TRUE,
     locked_until |-> NoTime]

\* a fresh state bound to no secret (C16 depends on the binding)
FreshStateUnbound(secret_id) ==
    [current_secret_id |-> NoId, attempts_left |-> FullAttempts,
     last_result |-> NULL, last_guess |-> None, can_create_secret |-> FALSE,
     locked_until |-> NoTime]

\* a fresh state with one attempt too many (C5 depends on the refill value)
FreshStateFourAttempts(secret_id) ==
    [current_secret_id |-> secret_id, attempts_left |-> FullAttempts + 1,
     last_result |-> NULL, last_guess |-> None, can_create_secret |-> FALSE,
     locked_until |-> NoTime]

\* new_state of get_or_create_state, reset_state of get_or_create_state and
\* of reset_game: the same values
FreshState(secret_id) ==
    [current_secret_id |-> secret_id, attempts_left |-> FullAttempts,
     last_result |-> NULL, last_guess |-> None, can_create_secret |-> FALSE,
     locked_until |-> NoTime]

\* what the readers get from a document that lacks every field:
\* game_state.get(f) is None, .get("attempts_left", 3), .get("can_create_secret", False)
BlankState ==
    [current_secret_id |-> NoId, attempts_left |-> FullAttempts,
     last_result |-> NULL, last_guess |-> None, can_create_secret |-> FALSE,
     locked_until |-> NoTime]

\* game_states.find_one({"user_uuid": u}): has a document been found, and which
HasState(G, u) == G[u] # <<>>
FindState(G, u) == G[u][1]

\* $set of the fields of updates on a document
SetFields(doc, updates) ==
    [f \in StateFields |-> IF f \in DOMAIN updates THEN updates[f] ELSE doc[f]]

\* an update with no filter on user_uuid: it sets the fields on the document
\* of every user (C26 depends on the filter)
UpdateEveryone(G, u, updates, upsert) ==
    [v \in Users |-> IF G[v] = <<>> THEN G[v]
                     ELSE [G[v] EXCEPT ![1] = SetFields(@, updates)]]

\* game_states.update_one({"user_uuid": u}, {"$set": updates}, upsert=upsert)
UpdateOne(G, u, updates, upsert) ==
    IF HasState(G, u)
    THEN [G EXCEPT ![u] = [@ EXCEPT ![1] = SetFields(@, updates)]]
    ELSE IF upsert THEN [G EXCEPT ![u] = <<SetFields(BlankState, updates)>>]
    ELSE G

\* an update_game_state that finds no document to update and inserts none
\* (C23 depends on the upsert)
UpdateOnlyExisting(G, u, state_updates) == UpdateOne(G, u, state_updates, FALSE)

\* an update_game_state that inserts a new document on every call (C24
\* depends on the update in place)
UpdateAddsDocument(G, u, state_updates) ==
    [G EXCEPT ![u] = <<SetFields(BlankState, state_updates)>> \o @]

\* update_game_state: update_one(..., upsert=True)
update_game_state(G, u, state_updates) == UpdateOne(G, u, state_updates, TRUE)

\* ---------------------------------------------------------------- requests

IdleReq ==
    [pc |-> "idle", op |-> "none", user |-> NoUser, guess |-> <<>>,
     new_phrase |-> <<>>, hint |-> <<>>, secret_id |-> NoId,
     attempts_left |-> 0, can_create_secret |-> FALSE]

NoResp == [status |-> 0, op |-> "none", user |-> NoUser, slot |-> 0,
           secret_id |-> NoId]

InFlight(p) == req[p].pc # "idle"

\* the step is none that ends a request
Silent == resp' = NoResp

\* the step of slot p moves its request on: the locals it sets, whether the
\* request has written to the store by now
Continue(p, r, w) ==
    /\ req' = [req EXCEPT ![p] = r]
    /\ wrote' = [wrote EXCEPT ![p] = w]
    /\ Silent

Goto(p, pc, w) == Continue(p, [req[p] EXCEPT !.pc = pc], w)

\* the request r of slot p ends: it sends the response of the given status
\* and JSON body, and the slot is free again.  (With the response go, as
\* history, the secret the request worked on and whether it wrote.)
Answer(p, r, status, body, w) ==
    /\ req' = [req EXCEPT ![p] = IdleReq]
    /\ wrote' = [wrote EXCEPT ![p] = FALSE]
    /\ resp' = [status |-> status, op |-> r.op, user |-> r.user,
                slot |-> p, secret_id |-> r.secret_id, body |-> body,
                wrote |-> w]

Finish(p, status, body, w) == Answer(p, req[p], status, body, w)

\* a request is taken by the first free slot, when the server has a free worker
CanStart(p) ==
    /\ ~InFlight(p)
    /\ \A q \in Slots : q < p => InFlight(q)
    /\ Cardinality({q \in Slots : InFlight(q)}) < workers
    /\ taken < MaxRequests

\* The server takes a request of user u for the handler op in slot p.  A
\* request shows in the store only from its first database call on, so taking
\* it is one step with that call.
Take(p) ==
    /\ CanStart(p)
    /\ taken' = taken + 1

\* the request of slot p as the handler starts on it
NewReq(op, u) == [IdleReq EXCEPT !.op = op, !.user = u]

\* the step of slot p reads the store and writes nothing
ReadOnly ==
    UNCHANGED <<secrets, game_states, user_index, now, workers, marks, rotations,
                trail, guessed, cmp, faults, tw, audio>>

\* ---------------------------------------------------- history of guesses

\* no guess of the user has persisted anything since the state was created,
\* rebound to another secret or reset
NoGuess ==
    [secret_id |-> NoId, attempts_left |-> FullAttempts, before |-> FullAttempts,
     refilled |-> FALSE, refill |-> FALSE, resets |-> 0]

\* The last write to the user's state was the one of a reset; old is the
\* user's entry so far.  resets tells whether it was the first reset in a row
\* (1) or a later one (2).
AfterReset(old) == [NoGuess EXCEPT !.resets = IF old.resets = 0 THEN 1 ELSE 2]

\* A guess on secret_id has persisted attempts_left; old is the user's entry
\* so far.  before is what the user's guess before this one persisted,
\* refilled whether a lockout expiry refilled the counter between the two.
Guessed(old, secret_id, attempts_left) ==
    [secret_id |-> secret_id, attempts_left |-> attempts_left,
     before |-> IF old.secret_id = secret_id THEN old.attempts_left
                ELSE FullAttempts,
     refilled |-> old.secret_id = secret_id /\ old.refill,
     refill |-> FALSE, resets |-> 0]

\* -------------------------------------------------- get_or_create_state

\* a response that spreads the whole secret document (C30 depends on the
\* fields the response is made of)
GameStateBodyLeaks(S, state, active_id) ==
    [attempts_left |-> state.attempts_left,
     last_result |-> state.last_result,
     last_guess |-> state.last_guess,
     current_secret_id |-> state.current_secret_id,
     can_create_secret |-> state.can_create_secret,
     locked_until |-> state.locked_until,
     hint |-> S[active_id].hint,
     secret_phrase |-> S[active_id].secret_phrase,
     secret_id |-> active_id]

\* jsonify of game_state: {**state, "hint": ..., "secret_id": ...}, the
\* active secret being a document of S
GameStateBodyOf(S, state, active_id) ==
    [attempts_left |-> state.attempts_left,
     last_result |-> state.last_result,
     last_guess |-> state.last_guess,
     current_secret_id |-> state.current_secret_id,
     can_create_secret |-> state.can_create_secret,
     locked_until |-> state.locked_until,
     hint |-> S[active_id].hint,
     secret_id |-> active_id]

GameStateBody(state, active_id) == GameStateBodyOf(secrets, state, active_id)

\* jsonify of submit_guess when the resolved state has no attempt left
NoAttemptsBody(guess, attempts_left) ==
    [message |-> "No attempts left for this secret.",
     guess |-> guess, attempts_left |-> attempts_left, result |-> "no_attempts",
     match |-> FALSE, can_create_secret |-> FALSE]

\* a refusal that lets a guess through at 0 (C7 depends on the refusal at 0)
NoAttemptsBelowZero(attempts_left) == attempts_left < 0

\* submit_guess refuses the guess: if state["attempts_left"] <= 0
NoAttemptsLeft(attempts_left) == attempts_left <= 0

\* What the handler does with the state get_or_create_state returned, up to its
\* next database call.  game_state answers.  submit_guess answers no_attempts,
\* or consumes one attempt (state["attempts_left"] -= 1), compares the guess
\* with the phrase of the secret it fetched and goes on to the matching write.
AfterResolve(p, state, w) ==
    LET r == req[p] IN
    IF r.op = "game_state"
    THEN Finish(p, 200, GameStateBody(state, r.secret_id), w)
    ELSE IF NoAttemptsLeft(state.attempts_left)
    THEN Finish(p, 200, NoAttemptsBody(r.guess, state.attempts_left), w)
    ELSE Continue(p, [r EXCEPT !.attempts_left = state.attempts_left - 1,
                               !.pc = IF GuessMatches(r.guess,
                                                      secrets[r.secret_id].secret_phrase)
                                      THEN "sg_mark" ELSE "sg_inc"], w)

\* a lockout that counts as expired as soon as it is set (C13 depends on the
\* comparison with the clock)
LockoutExpiredAtOnce(doc, t) ==
    /\ doc.attempts_left = 0
    /\ doc.locked_until # NoTime

\* the lockout of the stored state has expired:
\* attempts_left == 0 and locked_until_str, and now >= locked_until
LockoutExpired(doc, t) ==
    /\ doc.attempts_left = 0
    /\ doc.locked_until # NoTime
    /\ t >= doc.locked_until

\* game_states.find_one({"user_uuid": user_uuid}) and the branch taken on it.
\* An existing state bound to the active secret and not due for a refill is
\* returned as it is stored ("Return existing state").
ResolveFind(p) ==
    LET r == req[p]
        doc == FindState(game_states, r.user) IN
    /\ r.pc = "resolve_find"
    /\ ReadOnly
    /\ UNCHANGED taken
    /\ IF ~HasState(game_states, r.user)
       THEN Goto(p, "resolve_insert", wrote[p])
       ELSE IF doc.current_secret_id # r.secret_id
       THEN Goto(p, "resolve_reset", wrote[p])
       ELSE IF LockoutExpired(doc, now)
       THEN Continue(p, [r EXCEPT !.pc = "resolve_restore",
                                  !.can_create_secret = doc.can_create_secret],
                     wrote[p])
       ELSE AfterResolve(p, [doc EXCEPT !.current_secret_id = r.secret_id],
                         wrote[p])

\* the secret changed since the user last played: update_one($set reset_state)
ResolveReset(p) ==
    LET r == req[p] IN
    /\ r.pc = "resolve_reset"
    /\ game_states' = UpdateOne(game_states, r.user, FreshState(r.secret_id), FALSE)
    /\ trail' = [trail EXCEPT ![r.user] = <<>>]
    /\ guessed' = [guessed EXCEPT ![r.user] = NoGuess]
    /\ AfterResolve(p, FreshState(r.secret_id), TRUE)
    /\ UNCHANGED <<secrets, user_index, now, workers, taken, marks, rotations, cmp, faults, tw, audio>>

\* a restore_state that leaves locked_until in place (C14 depends on its
\* clearing)
RestoreKeepsLock ==
    [attempts_left |-> FullAttempts, last_result |-> NULL, last_guess |-> None]

\* restore_state of get_or_create_state
RestoreUpdates ==
    [attempts_left |-> FullAttempts, locked_until |-> NoTime,
     last_result |-> NULL, last_guess |-> None]

\* 24 hours have passed: update_one($set restore_state); can_create_secret is
\* returned as it was read
ResolveRestore(p) ==
    LET r == req[p] IN
    /\ r.pc = "resolve_restore"
    /\ game_states' = UpdateOne(game_states, r.user, RestoreUpdates, FALSE)
    /\ trail' = [trail EXCEPT ![r.user] = <<>>]
    /\ guessed' = [guessed EXCEPT ![r.user].refill = TRUE]
    /\ AfterResolve(p, [FreshState(r.secret_id) EXCEPT
                            !.can_create_secret = r.can_create_secret], TRUE)
    /\ UNCHANGED <<secrets, user_index, now, workers, taken, marks, rotations, cmp, faults, tw, audio>>

\* no state was found: insert_one(new_state).  With the unique index in place
\* a second document of the user raises DuplicateKeyError, and the except
\* branch returns the default state.
ResolveInsert(p) ==
    LET r == req[p] IN
    /\ r.pc = "resolve_insert"
    /\ IF user_index /\ HasState(game_states, r.user)
       THEN /\ AfterResolve(p, FreshState(r.secret_id), wrote[p])
            /\ UNCHANGED <<game_states, trail, guessed>>
       ELSE /\ game_states' = [game_states EXCEPT
                                   ![r.user] = Append(@, FreshState(r.secret_id))]
            /\ trail' = [trail EXCEPT ![r.user] = <<>>]
            /\ guessed' = [guessed EXCEPT ![r.user] = NoGuess]
            /\ Goto(p, "resolve_index", TRUE)
    /\ UNCHANGED <<secrets, user_index, now, workers, taken, marks, rotations, cmp, faults, tw, audio>>

\* create_index("user_uuid", unique=True): fails while some user has two
\* documents, and then the except branch returns the default state, which
\* carries the values of the state just inserted
ResolveIndex(p) ==
    LET r == req[p] IN
    /\ r.pc = "resolve_index"
    /\ user_index' = (user_index \/ \A u \in Users : Len(game_states[u]) <= 1)
    /\ AfterResolve(p, FreshState(r.secret_id), wrote[p])
    /\ UNCHANGED <<secrets, game_states, now, workers, taken, marks, rotations, trail, guessed, cmp, faults, tw, audio>>

\* ------------------------------- get_or_create_state: the store fails

\* a default state with no attempt in it (C27 depends on the 3 attempts)
DefaultStateNoAttempts(secret_id) ==
    [current_secret_id |-> secret_id, attempts_left |-> 0,
     last_result |-> NULL, last_guess |-> None, can_create_secret |-> FALSE,
     locked_until |-> NoTime]

\* the default state get_or_create_state returns when the database or the
\* active secret is None (then with current_secret_id None) and from its
\* except branch (then with the id of the active secret)
DefaultState(secret_id) ==
    [current_secret_id |-> secret_id, attempts_left |-> FullAttempts,
     last_result |-> NULL, last_guess |-> None, can_create_secret |-> FALSE,
     locked_until |-> NoTime]

\* a database call raises
Raise ==
    /\ faults < MaxFaults
    /\ faults' = faults + 1

\* find_one raises: the except branch returns the default state
ResolveFindFails(p) ==
    LET r == req[p] IN
    /\ r.pc = "resolve_find"
    /\ Raise
    /\ AfterResolve(p, DefaultState(r.secret_id), wrote[p])
    /\ UNCHANGED <<secrets, game_states, user_index, now, workers, taken, marks,
                   rotations, trail, guessed, cmp, tw, audio>>

\* update_one($set reset_state) raises, before or after the server applied it
ResolveResetFails(p) ==
    LET r == req[p] IN
    /\ r.pc = "resolve_reset"
    /\ Raise
    /\ \E applied \in BOOLEAN :
           IF applied
           THEN /\ game_states' = UpdateOne(game_states, r.user,
                                            FreshState(r.secret_id), FALSE)
                /\ trail' = [trail EXCEPT ![r.user] = <<>>]
                /\ guessed' = [guessed EXCEPT ![r.user] = NoGuess]
                /\ AfterResolve(p, DefaultState(r.secret_id), TRUE)
           ELSE /\ UNCHANGED <<game_states, trail, guessed>>
                /\ AfterResolve(p, DefaultState(r.secret_id), wrote[p])
    /\ UNCHANGED <<secrets, user_index, now, workers, taken, marks, rotations, cmp, tw, audio>>

\* update_one($set restore_state) raises, before or after the server applied
\* it: the default state is returned, not the stored can_create_secret
ResolveRestoreFails(p) ==
    LET r == req[p] IN
    /\ r.pc = "resolve_restore"
    /\ Raise
    /\ \E applied \in BOOLEAN :
           IF applied
           THEN /\ game_states' = UpdateOne(game_states, r.user, RestoreUpdates,
                                            FALSE)
                /\ trail' = [trail EXCEPT ![r.user] = <<>>]
                /\ guessed' = [guessed EXCEPT ![r.user].refill = TRUE]
                /\ AfterResolve(p, DefaultState(r.secret_id), TRUE)
           ELSE /\ UNCHANGED <<game_states, trail, guessed>>
                /\ AfterResolve(p, DefaultState(r.secret_id), wrote[p])
    /\ UNCHANGED <<secrets, user_index, now, workers, taken, marks, rotations, cmp, tw, audio>>

\* insert_one(new_state) raises for another reason than a duplicate key,
\* before or after the server applied it; create_index is not reached
ResolveInsertFails(p) ==
    LET r == req[p] IN
    /\ r.pc = "resolve_insert"
    /\ Raise
    /\ \E applied \in BOOLEAN :
           IF applied /\ ~(user_index /\ HasState(game_states, r.user))
           THEN /\ game_states' = [game_states EXCEPT
                                       ![r.user] = Append(@, FreshState(r.secret_id))]
                /\ trail' = [trail EXCEPT ![r.user] = <<>>]
                /\ guessed' = [guessed EXCEPT ![r.user] = NoGuess]
                /\ AfterResolve(p, DefaultState(r.secret_id), TRUE)
           ELSE /\ UNCHANGED <<game_states, trail, guessed>>
                /\ AfterResolve(p, DefaultState(r.secret_id), wrote[p])
    /\ UNCHANGED <<secrets, user_index, now, workers, taken, marks, rotations, cmp, tw, audio>>

\* create_index raises and builds no index
ResolveIndexFails(p) ==
    LET r == req[p] IN
    /\ r.pc = "resolve_index"
    /\ Raise
    /\ AfterResolve(p, DefaultState(r.secret_id), wrote[p])
    /\ UNCHANGED <<secrets, game_states, user_index, now, workers, taken, marks,
                   rotations, trail, guessed, cmp, tw, audio>>

\* get_or_create_state(user_uuid, None, active_secret) or
\* get_or_create_state(user_uuid, db, None), called as such (no handler calls
\* it so): it returns the default state bound to no secret.  The value
\* returned shows as the response of the step.
ResolveUnavailable(u, db_up, active) ==
    /\ ~db_up \/ active = NoId
    /\ resp' = [status |-> 0, op |-> "get_or_create_state", user |-> u, slot |-> 0,
                secret_id |-> active, body |-> DefaultState(NoId), wrote |-> FALSE]
    /\ UNCHANGED <<secrets, game_states, user_index, now, req, workers, taken, wrote,
                   marks, rotations, trail, guessed, cmp, faults, tw, audio>>

\* ------------------------------------------------------------- game_state

NoSecretBody == [error |-> "No active secret available"]

\* GET /api/game-state: active_secret = get_active_secret(db)
GsGetActive(p, u) ==
    LET active == get_active_secret(secrets)
        r == NewReq("game_state", u) IN
    /\ Take(p)
    /\ ReadOnly
    /\ IF active = NoId
       THEN Continue(p, [r EXCEPT !.pc = "gs_default_find"], FALSE)
       ELSE Continue(p, [r EXCEPT !.pc = "resolve_find", !.secret_id = active],
                     FALSE)

\* create_default_secret: find_one({"solved_at": None}), which has no sort:
\* with several active secrets it returns any of them
GsDefaultFind(p) ==
    /\ req[p].pc = "gs_default_find"
    /\ ReadOnly
    /\ UNCHANGED taken
    /\ IF ActiveIds(secrets) = {}
       THEN Goto(p, "gs_default_insert", wrote[p])
       ELSE \E active \in ActiveIds(secrets) :
                Continue(p, [req[p] EXCEPT !.pc = "resolve_find",
                                           !.secret_id = active], wrote[p])

\* create_default_secret: insert_one(default_secret)
GsDefaultInsert(p) ==
    /\ req[p].pc = "gs_default_insert"
    /\ secrets' = Append(secrets, DefaultSecretDoc)
    /\ Continue(p, [req[p] EXCEPT !.pc = "resolve_find",
                                  !.secret_id = Len(secrets) + 1], TRUE)
    /\ UNCHANGED <<game_states, user_index, now, workers, taken, marks, rotations, trail, guessed, cmp, faults, tw, audio>>

\* ----------------------------------------------------------- submit_guess

\* POST /api/submit-guess: guess = data.get("guess", "").strip(), then
\* active_secret = get_active_secret(db); 503 when there is none
SgGetActive(p, u, text) ==
    LET active == get_active_secret(secrets)
        r == [NewReq("submit_guess", u) EXCEPT !.guess = Strip(text)] IN
    /\ Take(p)
    /\ ReadOnly
    /\ IF active = NoId
       THEN Answer(p, r, 503, NoSecretBody, FALSE)
       ELSE Continue(p, [r EXCEPT !.pc = "resolve_find", !.secret_id = active],
                     FALSE)

\* correct guess: mark_secret_solved(db, secret_id)
SgMark(p) ==
    LET r == req[p] IN
    /\ r.pc = "sg_mark"
    /\ secrets' = mark_secret_solved(secrets, r.secret_id, now)
    /\ marks' = Append(marks, [user |-> r.user, secret_id |-> r.secret_id])
    /\ Goto(p, "sg_update_correct", TRUE)
    /\ UNCHANGED <<game_states, user_index, now, workers, taken, rotations, trail, guessed, cmp, faults, tw, audio>>

\* correct guess: update_one of mark_secret_solved raises, before or after the
\* server applied it; mark_secret_solved returns False, submit_guess does not
\* read the value and goes on (marks records the calls that were applied)
SgMarkFails(p) ==
    LET r == req[p] IN
    /\ r.pc = "sg_mark"
    /\ Raise
    /\ \E applied \in BOOLEAN :
           IF applied
           THEN /\ secrets' = mark_secret_solved(secrets, r.secret_id, now)
                /\ marks' = Append(marks, [user |-> r.user, secret_id |-> r.secret_id])
                /\ Goto(p, "sg_update_correct", TRUE)
           ELSE /\ UNCHANGED <<secrets, marks>>
                /\ Goto(p, "sg_update_correct", wrote[p])
    /\ UNCHANGED <<game_states, user_index, now, workers, taken, rotations, trail, guessed, cmp, tw, audio>>

\* the state a correct guess persists
CorrectUpdates(attempts_left, guess) ==
    [attempts_left |-> attempts_left, last_result |-> "correct",
     last_guess |-> Some(guess), can_create_secret |-> TRUE]

CorrectBody(guess, attempts_left) ==
    [message |-> "You guessed it! You can now create a new secret.",
     guess |-> guess, attempts_left |-> attempts_left, result |-> "correct",
     match |-> TRUE, can_create_secret |-> TRUE]

\* correct guess: update_game_state(...) and the answer
SgUpdateCorrect(p) ==
    LET r == req[p] IN
    /\ r.pc = "sg_update_correct"
    /\ game_states' = update_game_state(game_states, r.user,
                                        CorrectUpdates(r.attempts_left, r.guess))
    /\ trail' = [trail EXCEPT ![r.user] = <<>>]
    /\ guessed' = [guessed EXCEPT ![r.user] =
                      Guessed(@, r.secret_id,
                              FindState(game_states', r.user).attempts_left)]
    /\ Finish(p, 200, CorrectBody(r.guess, r.attempts_left), TRUE)
    /\ UNCHANGED <<secrets, user_index, now, workers, taken, marks, rotations, cmp, faults, tw, audio>>

\* incorrect guess: increment_wrong_guesses(db, secret_id)
SgInc(p) ==
    LET r == req[p] IN
    /\ r.pc = "sg_inc"
    /\ secrets' = increment_wrong_guesses(secrets, r.secret_id)
    /\ Goto(p, "sg_update_incorrect", TRUE)
    /\ UNCHANGED <<game_states, user_index, now, workers, taken, marks, rotations, trail, guessed, cmp, faults, tw, audio>>

\* a lockout of half the length (C10 depends on the 24 hours)
LockedUntilHalfDay(attempts_left, t) ==
    IF attempts_left = 0 THEN t + 12 ELSE NoTime

\* locked_until of an incorrect guess: now + 24 hours when no attempt is left
LockedUntil(attempts_left, t) ==
    IF attempts_left = 0 THEN t + LockoutHours ELSE NoTime

\* a state_update that hands attempts back (C11 depends on the value persisted)
IncorrectUpdatesRefund(attempts_left, guess, t) ==
    [attempts_left |-> attempts_left + 2, last_result |-> "incorrect",
     last_guess |-> Some(guess)]

\* state_update of an incorrect guess: locked_until is part of it only when
\* the attempts have reached zero
IncorrectUpdates(attempts_left, guess, t) ==
    IF attempts_left = 0
    THEN [attempts_left |-> attempts_left, last_result |-> "incorrect",
          last_guess |-> Some(guess), locked_until |-> LockedUntil(attempts_left, t)]
    ELSE [attempts_left |-> attempts_left, last_result |-> "incorrect",
          last_guess |-> Some(guess)]

IncorrectBody(guess, attempts_left, t) ==
    [message |-> IF attempts_left = 0 THEN "Incorrect guess. No attempts left."
                 ELSE "Incorrect guess. Try again!",
     guess |-> guess, attempts_left |-> attempts_left, result |-> "incorrect",
     match |-> FALSE, can_create_secret |-> FALSE,
     locked_until |-> LockedUntil(attempts_left, t)]

\* what an incorrect guess adds to the user's trail: the attempts_left now
\* stored, and the hours from now to the stored locked_until
TrailEntry(doc, t) ==
    [attempts_left |-> doc.attempts_left,
     lock_hours |-> IF doc.locked_until = NoTime THEN NoTime
                    ELSE doc.locked_until - t]

\* incorrect guess: update_game_state(state_update) and the answer
SgUpdateIncorrect(p) ==
    LET r == req[p]
        G == update_game_state(game_states, r.user,
                               IncorrectUpdates(r.attempts_left, r.guess, now)) IN
    /\ r.pc = "sg_update_incorrect"
    /\ game_states' = G
    /\ trail' = [trail EXCEPT ![r.user] =
                    Append(@, TrailEntry(FindState(G, r.user), now))]
    /\ guessed' = [guessed EXCEPT ![r.user] =
                      Guessed(@, r.secret_id, FindState(G, r.user).attempts_left)]
    /\ Finish(p, 200, IncorrectBody(r.guess, r.attempts_left, now), TRUE)
    /\ UNCHANGED <<secrets, user_index, now, workers, taken, marks, rotations, cmp, faults, tw, audio>>

\* ---------------------------------------------------------- create_secret

PermissionBody == [error |-> "You don't have permission to create a secret."]

\* a permission check that only asks for a stored state (C18 depends on the
\* test of can_create_secret)
MayNotCreateWithoutState(G, u) == ~HasState(G, u)

\* not user_state or not user_state.get("can_create_secret", False)
MayNotCreate(G, u) == ~HasState(G, u) \/ ~FindState(G, u).can_create_secret

\* a validation that lets a hint of 4 characters pass (C19 depends on the
\* minimum of 5)
ValidationErrorShortHint(new_phrase, hint) ==
    IF new_phrase = <<>> THEN "Secret phrase cannot be empty."
    ELSE IF hint = <<>> THEN "Hint cannot be empty."
    ELSE IF Len(new_phrase) < MinPhraseLen
    THEN "Secret phrase must be at least 3 characters."
    ELSE IF Len(hint) < MinHintLen - 1 THEN "Hint must be at least 5 characters."
    ELSE ""

\* the validation of create_secret, in its order; "" when the input is valid
ValidationError(new_phrase, hint) ==
    IF new_phrase = <<>> THEN "Secret phrase cannot be empty."
    ELSE IF hint = <<>> THEN "Hint cannot be empty."
    ELSE IF Len(new_phrase) < MinPhraseLen
    THEN "Secret phrase must be at least 3 characters."
    ELSE IF Len(hint) < MinHintLen THEN "Hint must be at least 5 characters."
    ELSE ""

\* POST /api/create-secret: user_state = db.game_states.find_one(...) and the
\* permission check; then the request's "secret_phrase" and "hint" are read,
\* stripped and validated.  (The request keeps, as history, the secret the
\* state it read is bound to: the secret whose solution gave the permission.)
CsFind(p, u, phrase, hint) ==
    LET r == NewReq("create_secret", u)
        new_phrase == Strip(phrase)
        new_hint == Strip(hint) IN
    /\ Take(p)
    /\ ReadOnly
    /\ IF MayNotCreate(game_states, u)
       THEN Answer(p, r, 403, PermissionBody, FALSE)
       ELSE IF ValidationError(new_phrase, new_hint) # ""
       THEN Answer(p, r, 400, [error |-> ValidationError(new_phrase, new_hint)],
                   FALSE)
       ELSE Continue(p, [r EXCEPT !.pc = "cs_insert",
                                  !.new_phrase = new_phrase, !.hint = new_hint,
                                  !.secret_id =
                                      FindState(game_states, u).current_secret_id],
                     FALSE)

\* create_new_secret(db, new_phrase, hint, current_user.user_uuid)
CsInsert(p) ==
    LET r == req[p] IN
    /\ r.pc = "cs_insert"
    /\ secrets' = create_new_secret(secrets, r.new_phrase, r.hint, r.user)
    /\ rotations' = Append(rotations, [user |-> r.user, solved |-> r.secret_id,
                                       secret_id |-> Len(secrets) + 1])
    /\ Continue(p, [r EXCEPT !.pc = "cs_update", !.secret_id = Len(secrets) + 1],
                TRUE)
    /\ UNCHANGED <<game_states, user_index, now, workers, taken, marks, trail, guessed, cmp, faults, tw, audio>>

\* update_game_state(..., {"can_create_secret": False}) and the answer
CsUpdate(p) ==
    LET r == req[p] IN
    /\ r.pc = "cs_update"
    /\ game_states' = update_game_state(game_states, r.user,
                                        [can_create_secret |-> FALSE])
    /\ Finish(p, 200, [message |-> "New secret created.",
                       secret_id |-> r.secret_id], TRUE)
    /\ UNCHANGED <<secrets, user_index, now, workers, taken, marks, rotations, trail, guessed, cmp, faults, tw, audio>>

\* ------------------------------------------------------------- reset_game

\* POST /api/reset: active_secret = get_active_secret(db); 503 when there is
\* none
RsGetActive(p, u) ==
    LET active == get_active_secret(secrets)
        r == NewReq("reset", u) IN
    /\ Take(p)
    /\ ReadOnly
    /\ IF active = NoId
       THEN Answer(p, r, 503, NoSecretBody, FALSE)
       ELSE Continue(p, [r EXCEPT !.pc = "rs_update", !.secret_id = active], FALSE)

\* jsonify of reset_game: the message and **reset_state
ResetBody(reset_state) ==
    [message |-> "Game reset. You have 3 new attempts.",
     current_secret_id |-> reset_state.current_secret_id,
     attempts_left |-> reset_state.attempts_left,
     last_result |-> reset_state.last_result,
     last_guess |-> reset_state.last_guess,
     can_create_secret |-> reset_state.can_create_secret,
     locked_until |-> reset_state.locked_until]

\* update_game_state(current_user.user_uuid, db, reset_state) and the answer
RsUpdate(p) ==
    LET r == req[p] IN
    /\ r.pc = "rs_update"
    /\ game_states' = update_game_state(game_states, r.user, FreshState(r.secret_id))
    /\ trail' = [trail EXCEPT ![r.user] = <<>>]
    /\ guessed' = [guessed EXCEPT ![r.user] = AfterReset(@)]
    /\ Finish(p, 200, ResetBody(FreshState(r.secret_id)), TRUE)
    /\ UNCHANGED <<secrets, user_index, now, workers, taken, marks, rotations, cmp, faults, tw, audio>>

\* ------------------------------------------------------------------ clock

\* a clock with a timer that restores the expired lockouts as it advances
\* (C31 depends on the clock writing nothing)
TickRestores ==
    /\ now + TickHours <= MaxTime
    /\ now' = now + TickHours
    /\ game_states' =
           [u \in Users |->
               IF HasState(game_states, u)
                  /\ LockoutExpired(FindState(game_states, u), now + TickHours)
               THEN [game_states[u] EXCEPT ![1] = SetFields(@, RestoreUpdates)]
               ELSE game_states[u]]
    /\ Silent
    /\ UNCHANGED <<secrets, user_index, req, workers, taken, wrote, marks,
                   rotations, trail, guessed, cmp, faults, tw, audio>>

Tick ==
    /\ now + TickHours <= MaxTime
    /\ now' = now + TickHours
    /\ Silent
    /\ UNCHANGED <<secrets, game_states, user_index, req, workers, taken, wrote, marks,
                   rotations, trail, guessed, cmp, faults, tw, audio>>

\* ------------------------------------------ the handlers run twice

\* A handler run as a whole, with no other request between its database
\* calls and none of them failing, is a function of the store and the
\* request: it gives the secrets and game_states it leaves and its response.
Reply(S, G, status, body) ==
    [secrets |-> S, game_states |-> G, resp |-> [status |-> status, body |-> body]]

\* get_or_create_state: the game_states it leaves and the state it returns
get_or_create_state(G, u, active, t) ==
    IF ~HasState(G, u)
    THEN [G |-> [G EXCEPT ![u] = Append(@, FreshState(active))],
          state |-> FreshState(active)]
    ELSE IF FindState(G, u).current_secret_id # active
    THEN [G |-> UpdateOne(G, u, FreshState(active), FALSE),
          state |-> FreshState(active)]
    ELSE IF LockoutExpired(FindState(G, u), t)
    THEN [G |-> UpdateOne(G, u, RestoreUpdates, FALSE),
          state |-> [FreshState(active) EXCEPT
                         !.can_create_secret = FindState(G, u).can_create_secret]]
    ELSE [G |-> G, state |-> [FindState(G, u) EXCEPT !.current_secret_id = active]]

\* GET /api/game-state; default is the document create_default_secret inserts
game_state(st, default, u, t) ==
    LET S == IF get_active_secret(st.secrets) = NoId THEN Append(st.secrets, default)
             ELSE st.secrets
        active == get_active_secret(S)
        res == get_or_create_state(st.game_states, u, active, t) IN
    Reply(S, res.G, 200, GameStateBodyOf(S, res.state, active))

\* POST /api/submit-guess
submit_guess(st, u, text, t) ==
    LET guess == Strip(text)
        active == get_active_secret(st.secrets)
        res == get_or_create_state(st.game_states, u, active, t)
        n == res.state.attempts_left - 1 IN
    IF active = NoId
    THEN Reply(st.secrets, st.game_states, 503, NoSecretBody)
    ELSE IF NoAttemptsLeft(res.state.attempts_left)
    THEN Reply(st.secrets, res.G, 200,
               NoAttemptsBody(guess, res.state.attempts_left))
    ELSE IF GuessMatches(guess, st.secrets[active].secret_phrase)
    THEN Reply(mark_secret_solved(st.secrets, active, t),
               update_game_state(res.G, u, CorrectUpdates(n, guess)),
               200, CorrectBody(guess, n))
    ELSE Reply(increment_wrong_guesses(st.secrets, active),
               update_game_state(res.G, u, IncorrectUpdates(n, guess, t)),
               200, IncorrectBody(guess, n, t))

\* POST /api/create-secret
create_secret(st, u, phrase, hint) ==
    LET new_phrase == Strip(phrase)
        new_hint == Strip(hint) IN
    IF MayNotCreate(st.game_states, u)
    THEN Reply(st.secrets, st.game_states, 403, PermissionBody)
    ELSE IF ValidationError(new_phrase, new_hint) # ""
    THEN Reply(st.secrets, st.game_states, 400,
               [error |-> ValidationError(new_phrase, new_hint)])
    ELSE Reply(create_new_secret(st.secrets, new_phrase, new_hint, u),
               update_game_state(st.game_states, u, [can_create_secret |-> FALSE]),
               200, [message |-> "New secret created.",
                     secret_id |-> Len(st.secrets) + 1])

\* POST /api/reset
reset_game(st, u) ==
    LET active == get_active_secret(st.secrets) IN
    IF active = NoId
    THEN Reply(st.secrets, st.game_states, 503, NoSecretBody)
    ELSE Reply(st.secrets, update_game_state(st.game_states, u, FreshState(active)),
               200, ResetBody(FreshState(active)))

\* the two runs have not started
NoTwin == [kind |-> "none", steps |-> 0, clean |-> TRUE, run |-> <<>>]

\* How the phrases of the second run differ from those of the first: in
\* letter case only, or in their last letter.
TwinKinds == {"case", "letter"}

\* the phrase of the second run that answers to a phrase of the first
TwinText(kind, text) ==
    LET keep == {i \in 1..Len(text) : ~IsSpace(text[i])}
        hi == CHOOSE i \in keep : \A j \in keep : j <= i IN
    IF kind = "case" THEN Lower(text)
    ELSE IF keep = {} THEN text
    ELSE [text EXCEPT ![hi] = "z"]

\* the guess is compared with the phrase of the active secret and matches it
PhraseMatch(st, text) ==
    /\ get_active_secret(st.secrets) # NoId
    /\ GuessMatches(Strip(text),
                    st.secrets[get_active_secret(st.secrets)].secret_phrase)

\* the default secret in each run, nobody has played yet
TwinStart(kind) ==
    /\ tw.kind = "none"
    /\ tw' = [kind |-> kind, steps |-> 0, clean |-> TRUE,
              run |-> <<Reply(<<DefaultSecretDoc>>, [u \in Users |-> <<>>], 0, <<>>),
                        Reply(<<[DefaultSecretDoc EXCEPT
                                     !.secret_phrase = TwinText(kind, @)]>>,
                              [u \in Users |-> <<>>], 0, <<>>)>>]
    /\ UNCHANGED <<secrets, game_states, user_index, now, req, resp, workers, taken,
                   wrote, marks, rotations, trail, guessed, cmp, faults, audio>>

\* both runs have handled the same request: r1 and r2 are what it gave, same
\* tells whether a guess it carried matched in both runs or in neither
TwinStep(r1, r2, same) ==
    /\ tw.kind # "none"
    /\ tw.steps < MaxTwinSteps
    /\ tw' = [tw EXCEPT !.steps = @ + 1, !.clean = @ /\ same, !.run = <<r1, r2>>]
    /\ UNCHANGED <<secrets, game_states, user_index, now, req, resp, workers, taken,
                   wrote, marks, rotations, trail, guessed, cmp, faults, audio>>

TwinGameState(u) ==
    TwinStep(game_state(tw.run[1], DefaultSecretDoc, u, now),
             game_state(tw.run[2],
                        [DefaultSecretDoc EXCEPT
                             !.secret_phrase = TwinText(tw.kind, @)], u, now),
             TRUE)

TwinSubmitGuess(u, text) ==
    TwinStep(submit_guess(tw.run[1], u, text, now),
             submit_guess(tw.run[2], u, text, now),
             PhraseMatch(tw.run[1], text) = PhraseMatch(tw.run[2], text))

TwinCreateSecret(u, phrase, hint) ==
    TwinStep(create_secret(tw.run[1], u, phrase, hint),
             create_secret(tw.run[2], u, TwinText(tw.kind, phrase), hint),
             TRUE)

TwinReset(u) ==
    TwinStep(reset_game(tw.run[1], u), reset_game(tw.run[2], u), TRUE)

NextTwin ==
    \/ \E kind \in TwinKinds : TwinStart(kind)
    \/ \E u \in Users : TwinGameState(u)
    \/ \E u \in Users, text \in GuessTexts : TwinSubmitGuess(u, text)
    \/ \E u \in Users, phrase \in PhraseTexts, hint \in HintTexts :
           TwinCreateSecret(u, phrase, hint)
    \/ \E u \in Users : TwinReset(u)
    \/ Tick

\* ---------------------------------------------------- the comparison alone

\* no comparison is under way
NoCmp == [pc |-> "start", phrase |-> <<>>, guess |-> <<>>, match |-> FALSE]

\* the guesses compared: the texts over the alphabet, and the guesses of the
\* requests
MatchGuessTexts == TextsUpTo(MaxGuessLen) \cup GuessTexts

\* the active secret is the default secret: its phrase is DEFAULT_SECRET_PHRASE
MatchDefault ==
    /\ cmp.pc = "start"
    /\ cmp' = [cmp EXCEPT !.pc = "secret", !.phrase = DefaultSecretDoc.secret_phrase]
    /\ UNCHANGED <<secrets, game_states, user_index, now, req, resp, workers, taken,
                   wrote, marks, rotations, trail, guessed, faults, tw, audio>>

\* the active secret was made by create_secret: its phrase is the request's
\* "secret_phrase" stripped, and it passed the validation
MatchCreate(phrase, hint) ==
    /\ cmp.pc = "start"
    /\ ValidationError(Strip(phrase), Strip(hint)) = ""
    /\ cmp' = [cmp EXCEPT !.pc = "secret",
                          !.phrase = NewSecretDoc(Strip(phrase), Strip(hint),
                                                  NoUser).secret_phrase]
    /\ UNCHANGED <<secrets, game_states, user_index, now, req, resp, workers, taken,
                   wrote, marks, rotations, trail, guessed, faults, tw, audio>>

\* submit_guess on that secret: guess = data.get("guess", "").strip() and
\* guess.lower() == secret_phrase.lower()
MatchGuess(text) ==
    /\ cmp.pc = "secret"
    /\ cmp' = [cmp EXCEPT !.pc = "done", !.guess = text,
                          !.match = GuessMatches(Strip(text), cmp.phrase)]
    /\ UNCHANGED <<secrets, game_states, user_index, now, req, resp, workers, taken,
                   wrote, marks, rotations, trail, guessed, faults, tw, audio>>

NextMatch ==
    \/ MatchDefault
    \/ \E phrase \in TextsUpTo(MaxPhraseLen), hint \in HintTexts :
           MatchCreate(phrase, hint)
    \/ \E text \in MatchGuessTexts : MatchGuess(text)

\* ----------------------------------------------- upload_audio, transcribe_audio

\* the value "Transcription Failed" transcribe_audio returns after two failures
TRANSCRIPTION_FAILED == "Transcription Failed"

\* what request.files holds under "audio_file"
Files == {"missing", "empty_name", "not_audio", "audio"}

\* the texts the ML client can put under "transcription"
MLTexts == {"", "open sesame"}

\* what one requests.post(...), raise_for_status(), json() and the two .get
\* give: the JSON of the ML client (a missing "transcription_success" reads as
\* False, a missing "transcription" as ""), a requests.RequestException
\* (connection, timeout, HTTP status), or an exception of another class (the
\* JSON is no object)
MLAnswers ==
    [kind : {"json"}, transcription_success : BOOLEAN, transcription : MLTexts]
    \cup {[kind |-> k, transcription_success |-> FALSE, transcription |-> ""] :
             k \in {"request_error", "other_error"}}

NoReturn == [kind |-> "none", value |-> ""]
AudioReturn(v) == [kind |-> "return", value |-> v]
AudioRaise == [kind |-> "raise", value |-> ""]
AudioAgain == [kind |-> "continue", value |-> ""]

\* no upload-audio request has been made
NoAudio(url) ==
    [url |-> url, pc |-> "idle", file |-> "none", attempt |-> 0, posts |-> 0,
     answers |-> <<>>, ret |-> NoReturn, uploads |-> 0, status |-> 0,
     body |-> <<>>, sent |-> <<>>]

\* a loop of transcribe_audio that makes three attempts (C38 depends on
\* range(2))
AfterPostThreeAttempts(attempt, a) ==
    CASE a.kind = "other_error" -> AudioRaise
      [] a.kind = "request_error" ->
            IF attempt = 2 THEN AudioReturn(TRANSCRIPTION_FAILED) ELSE AudioAgain
      [] a.kind = "json" ->
            IF a.transcription_success THEN AudioReturn(a.transcription)
            ELSE IF attempt + 1 < 3 THEN AudioAgain
            ELSE AudioReturn(TRANSCRIPTION_FAILED)

\* transcribe_audio, one pass of the loop body after the answer a of the
\* attempt: return, go on with the next attempt, or let the exception through
AfterPost(attempt, a) ==
    CASE a.kind = "other_error" -> AudioRaise
      [] a.kind = "request_error" ->
            IF attempt = 1 THEN AudioReturn(TRANSCRIPTION_FAILED) ELSE AudioAgain
      [] a.kind = "json" ->
            IF a.transcription_success THEN AudioReturn(a.transcription)
            ELSE IF attempt + 1 < TranscribeAttempts THEN AudioAgain
            ELSE AudioReturn(TRANSCRIPTION_FAILED)

\* upload_audio after transcribe_audio: the except branch, the check
\* "if not recognized_text", or the answer 200
UploadAnswer(ret) ==
    IF ret.kind = "raise"
    THEN [status |-> 500, body |-> [error |-> "Internal server error"]]
    ELSE IF ret.value = ""
    THEN [status |-> 500, body |-> [error |-> "Transcription failed."]]
    ELSE [status |-> 200, body |-> [recognized_text |-> ret.value]]

\* the upload-audio request ends with the answer ans
AudioAnswered(file, posts, answers, ret, ans) ==
    audio' = [url |-> audio.url, pc |-> "idle", file |-> file, attempt |-> 0,
              posts |-> posts, answers |-> answers, ret |-> ret,
              uploads |-> audio.uploads, status |-> ans.status, body |-> ans.body,
              sent |-> Append(audio.sent, ans.status)]

\* POST /api/upload-audio up to the first requests.post of transcribe_audio
UploadAudio(file) ==
    /\ audio.pc = "idle"
    /\ audio.uploads < MaxUploads
    /\ LET a == [audio EXCEPT !.uploads = @ + 1]
           b == [a EXCEPT !.sent = Append(@, 400)] IN
       CASE file = "missing" ->
               audio' = [b EXCEPT !.file = file, !.posts = 0, !.answers = <<>>,
                                  !.ret = NoReturn, !.status = 400,
                                  !.body = [error |-> "No audio file uploaded."]]
         [] file = "empty_name" ->
               audio' = [b EXCEPT !.file = file, !.posts = 0, !.answers = <<>>,
                                  !.ret = NoReturn, !.status = 400,
                                  !.body = [error |-> "Empty audio file."]]
         [] file = "not_audio" ->
               audio' = [b EXCEPT !.file = file, !.posts = 0, !.answers = <<>>,
                                  !.ret = NoReturn, !.status = 400,
                                  !.body = [error |-> "Invalid file type"]]
         [] file = "audio" ->
               IF ~audio.url
               THEN audio' = [a EXCEPT !.file = file, !.posts = 0, !.answers = <<>>,
                                       !.ret = AudioRaise,
                                       !.status = UploadAnswer(AudioRaise).status,
                                       !.sent = Append(@, UploadAnswer(AudioRaise).status),
                                       !.body = UploadAnswer(AudioRaise).body]
               ELSE audio' = [a EXCEPT !.pc = "post", !.file = file, !.attempt = 0,
                                       !.posts = 0, !.answers = <<>>,
                                       !.ret = NoReturn, !.status = 0,
                                       !.body = <<>>]
    /\ UNCHANGED <<secrets, game_states, user_index, now, req, resp, workers, taken,
                   wrote, marks, rotations, trail, guessed, cmp, faults, tw>>

\* one attempt of transcribe_audio: requests.post gets the answer a; the
\* function returns or raises, and upload_audio answers, or the loop goes on
MLAnswer(a) ==
    /\ audio.pc = "post"
    /\ LET r == AfterPost(audio.attempt, a)
           posts == audio.posts + 1
           answers == Append(audio.answers, a) IN
       IF r.kind = "continue"
       THEN audio' = [audio EXCEPT !.attempt = @ + 1, !.posts = posts,
                                   !.answers = answers]
       ELSE AudioAnswered(audio.file, posts, answers, r, UploadAnswer(r))
    /\ UNCHANGED <<secrets, game_states, user_index, now, req, resp, workers, taken,
                   wrote, marks, rotations, trail, guessed, cmp, faults, tw>>

NextAudio ==
    \/ \E file \in Files : UploadAudio(file)
    \/ \E a \in MLAnswers : MLAnswer(a)

\* ---------------------------------------------------------- specification

\* create_app has run on an empty database: create_default_secret inserted
\* the default secret, nobody has played yet
InitStore ==
    /\ secrets = <<DefaultSecretDoc>>
    /\ game_states = [u \in Users |-> <<>>]
    /\ user_index = FALSE
    /\ now = 0
    /\ req = [p \in Slots |-> IdleReq]
    /\ resp = NoResp
    /\ taken = 0
    /\ wrote = [p \in Slots |-> FALSE]
    /\ marks = <<>>
    /\ rotations = <<>>
    /\ trail = [u \in Users |-> <<>>]
    /\ guessed = [u \in Users |-> NoGuess]
    /\ cmp = NoCmp
    /\ faults = 0
    /\ tw = NoTwin

\* the server works on the requests of all its slots at once
Init == InitStore /\ workers = Cardinality(Slots) /\ audio = NoAudio(TRUE)

\* the server works on one request at a time
InitSeq == InitStore /\ workers = 1 /\ audio = NoAudio(TRUE)

\* the server handles upload-audio requests; ML_CLIENT_URL, read from the
\* environment when the module is loaded, is set or is not
InitAudio == InitStore /\ workers = 1 /\ \E url \in BOOLEAN : audio = NoAudio(url)

Next ==
    \/ \E p \in Slots, u \in Users : GsGetActive(p, u)
    \/ \E p \in Slots : ResolveFind(p)
    \/ \E p \in Slots : ResolveReset(p)
    \/ \E p \in Slots : ResolveRestore(p)
    \/ \E p \in Slots : ResolveInsert(p)
    \/ \E p \in Slots : ResolveIndex(p)
    \/ \E p \in Slots : GsDefaultFind(p)
    \/ \E p \in Slots : GsDefaultInsert(p)
    \/ \E p \in Slots, u \in Users, text \in GuessTexts : SgGetActive(p, u, text)
    \/ \E p \in Slots : SgMark(p)
    \/ \E p \in Slots : SgUpdateCorrect(p)
    \/ \E p \in Slots : SgInc(p)
    \/ \E p \in Slots : SgUpdateIncorrect(p)
    \/ \E p \in Slots, u \in Users, phrase \in PhraseTexts, hint \in HintTexts :
           CsFind(p, u, phrase, hint)
    \/ \E p \in Slots : CsInsert(p)
    \/ \E p \in Slots : CsUpdate(p)
    \/ \E p \in Slots, u \in Users : RsGetActive(p, u)
    \/ \E p \in Slots : RsUpdate(p)
    \/ Tick

Spec == Init /\ [][Next]_vars

SpecSeq == InitSeq /\ [][Next]_vars

\* the requests one at a time, with database calls that raise
NextFault ==
    \/ Next
    \/ \E p \in Slots : ResolveFindFails(p)
    \/ \E p \in Slots : ResolveResetFails(p)
    \/ \E p \in Slots : ResolveRestoreFails(p)
    \/ \E p \in Slots : ResolveInsertFails(p)
    \/ \E p \in Slots : ResolveIndexFails(p)
    \/ \E p \in Slots : SgMarkFails(p)
    \/ \E u \in Users, db_up \in BOOLEAN, active \in {NoId} \cup DOMAIN secrets :
           ResolveUnavailable(u, db_up, active)

SpecFault == InitSeq /\ [][NextFault]_vars

\* the same requests handled by two servers whose secrets differ in their
\* phrases only
SpecTwin == InitSeq /\ [][NextTwin]_vars

\* one comparison, of any guess with any phrase a secret can have
SpecMatch == Init /\ [][NextMatch]_vars

\* the upload-audio requests, one at a time
SpecAudio == InitAudio /\ [][NextAudio]_vars

\* the same, where every requests.post ends: with a response or with an
\* exception, at the latest when its timeout=120 strikes
SpecAudioLive ==
    InitAudio /\ [][NextAudio]_vars /\ WF_vars(\E a \in MLAnswers : MLAnswer(a))

\* ------------------------------------------------------------------ claims

\* every document of game_states
AllStates == UNION {{game_states[u][i] : i \in DOMAIN game_states[u]} : u \in Users}

\* the user whose mark_secret_solved call reached the secret first
Solver(secret_id) ==
    LET ks == {k \in DOMAIN marks : marks[k].secret_id = secret_id} IN
    IF ks = {} THEN NoUser
    ELSE marks[CHOOSE k \in ks : \A j \in ks : k <= j].user

\* the last step answered a submit-guess request with a game outcome
GuessAnswered ==
    resp.op = "submit_guess" /\ resp.status = 200

\* C1: in every reachable state at most one secret has solved_at = null
C1_AtMostOneActive == Cardinality(ActiveIds(secrets)) <= 1

\* C2: no two different users both end as the solver of one secret, that is,
\* both hold can_create_secret = true with last_result correct for the same
\* secret
C2_OnlyOneSolver ==
    \A u, v \in Users :
        (/\ u # v
         /\ HasState(game_states, u)
         /\ HasState(game_states, v)
         /\ FindState(game_states, u).current_secret_id =
                FindState(game_states, v).current_secret_id
         /\ FindState(game_states, u).last_result = "correct"
         /\ FindState(game_states, v).last_result = "correct"
         /\ FindState(game_states, u).can_create_secret)
        => ~FindState(game_states, v).can_create_secret

\* C3: for every solved secret at most one create-secret succeeds, and it is
\* the solver's
C3_OneRotationBySolver ==
    /\ \A i, j \in DOMAIN rotations :
           rotations[i].solved = rotations[j].solved => i = j
    /\ \A i \in DOMAIN rotations :
           rotations[i].user = Solver(rotations[i].solved)

\* C4: every evaluated guess lowers the persisted attempts_left by exactly
\* one: the k-th incorrect guess since the counter was last full persists
\* attempts_left = 3 - k
C4_NoLostDecrement ==
    \A u \in Users : \A k \in DOMAIN trail[u] :
        trail[u][k].attempts_left = FullAttempts - k

\* C5: every persisted GameState has attempts_left in 0..3
C5_AttemptsInRange ==
    \A doc \in AllStates : doc.attempts_left \in 0..FullAttempts

\* C5 witness: a guess has brought a persisted counter down to 0
C5_Witness ==
    \E doc \in AllStates : doc.attempts_left = 0 /\ doc.last_result = "incorrect"

\* C6: every persisted GameState with locked_until set has attempts_left = 0
C6_LockedOnlyAtZero ==
    \A doc \in AllStates : doc.locked_until # NoTime => doc.attempts_left = 0

\* C7: a guess answered no_attempts was made with no attempt left and its
\* request wrote nothing to the store, and no guess is evaluated without an
\* attempt to consume (an evaluated guess leaves attempts_left >= 0)
C7_NoAttemptsChangesNothing ==
    GuessAnswered =>
        IF resp.body.result = "no_attempts"
        THEN resp.body.attempts_left = 0 /\ ~resp.wrote
        ELSE resp.body.attempts_left >= 0

\* C7 witness: a guess whose text equals the phrase is answered no_attempts
C7_Witness ==
    /\ GuessAnswered
    /\ resp.body.result = "no_attempts"
    /\ GuessMatches(resp.body.guess, secrets[resp.secret_id].secret_phrase)

\* C8: a guess that matches the phrase and is evaluated is answered correct,
\* and right after it the user's state has can_create_secret = true and
\* last_result = correct and the secret has solved_at set
C8_CorrectGuess ==
    (/\ GuessAnswered
     /\ resp.body.result # "no_attempts"
     /\ GuessMatches(resp.body.guess, secrets[resp.secret_id].secret_phrase))
    => /\ resp.body.result = "correct"
       /\ resp.body.can_create_secret
       /\ FindState(game_states, resp.user).can_create_secret
       /\ FindState(game_states, resp.user).last_result = "correct"
       /\ secrets[resp.secret_id].solved_at # NoTime

\* C8 witness: a matching guess in other letter case has been answered
C8_Witness ==
    /\ GuessAnswered
    /\ resp.body.result = "correct"
    /\ resp.body.guess # secrets[resp.secret_id].secret_phrase

\* C9: an incorrect guess made with n > 0 attempts increments the secret's
\* wrong_guesses by exactly 1 and leaves its solved_at alone, and persists
\* attempts_left = n - 1, last_result = incorrect and last_guess = the guess,
\* leaving can_create_secret alone
C9_IncorrectGuess ==
    [][\A p \in Slots :
        LET r == req[p]
            old == FindState(game_states, r.user)
            new == FindState(game_states', r.user) IN
        /\ (r.pc = "sg_inc" /\ req'[p].pc = "sg_update_incorrect") =>
              /\ secrets' = [secrets EXCEPT ![r.secret_id].wrong_guesses =
                                                secrets[r.secret_id].wrong_guesses + 1]
              /\ game_states' = game_states
        /\ (r.pc = "sg_update_incorrect" /\ req'[p].pc = "idle") =>
              /\ old.attempts_left > 0
              /\ new.attempts_left = old.attempts_left - 1
              /\ new.last_result = "incorrect"
              /\ new.last_guess = Some(r.guess)
              /\ new.can_create_secret = old.can_create_secret
              /\ secrets' = secrets
              /\ resp'.body.result = "incorrect"
              /\ resp'.body.attempts_left = new.attempts_left]_vars

\* C9 witness: an incorrect guess has been answered
C9_Witness ==
    /\ GuessAnswered
    /\ resp.body.result = "incorrect"
    /\ secrets[resp.secret_id].wrong_guesses > 0

\* C10: the incorrect guesses of a user since the counter was full persist
\* attempts_left 2, 1, 0 in that order, locked_until null after the first
\* and the second, and locked_until = the time of the guess + 24 hours after
\* the third
C10_ThreeWrongGuesses ==
    \A u \in Users :
        /\ Len(trail[u]) <= FullAttempts
        /\ \A k \in DOMAIN trail[u] :
               trail[u][k] = [attempts_left |-> FullAttempts - k,
                              lock_hours |-> IF k = FullAttempts THEN LockoutHours
                                             ELSE NoTime]

\* C10 witness: a user has made three incorrect guesses in a row
C10_Witness == \E u \in Users : Len(trail[u]) = 3

\* C11 as stated: across consecutive guess submissions of one user on one
\* secret, the persisted attempts_left never rises and never goes below 0
C11_NeverRises ==
    \A u \in Users :
        /\ guessed[u].attempts_left >= 0
        /\ guessed[u].attempts_left <= guessed[u].before

\* C11: across consecutive guess submissions of one user on one secret, the
\* persisted attempts_left never goes below 0, and never rises unless the
\* resolve before the later guess refilled the counter on lockout expiry
C11_NeverRisesWithinLockout ==
    \A u \in Users :
        /\ guessed[u].attempts_left >= 0
        /\ ~guessed[u].refilled =>
               guessed[u].attempts_left <= guessed[u].before

\* C11 witness: a user's guess has followed an earlier guess of theirs on the
\* same secret with no refill between, and persisted a lower attempts_left
C11_Witness ==
    \E u \in Users :
        /\ guessed[u].secret_id # NoId
        /\ ~guessed[u].refilled
        /\ guessed[u].before < FullAttempts
        /\ guessed[u].attempts_left < guessed[u].before

\* C12: while a user's lockout runs (attempts_left = 0 and the current time
\* before locked_until, which is the time attempts_left reached 0 plus 24
\* hours), no step of any request raises that user's attempts_left above 0
C12_NoNewAttemptsWhileLocked ==
    [][\A u \in Users :
          (/\ HasState(game_states, u)
           /\ FindState(game_states, u).attempts_left = 0
           /\ FindState(game_states, u).locked_until # NoTime
           /\ now < FindState(game_states, u).locked_until)
          => FindState(game_states', u).attempts_left = 0]_vars

\* The step of slot p hands the state that get_or_create_state returned to
\* the handler: game_state sends it as the response; of submit_guess only
\* attempts_left shows, in the refusal or in the attempt the guess consumes.
Returned(p, state) ==
    IF req[p].op = "game_state"
    THEN /\ req'[p].pc = "idle"
         /\ resp'.status = 200
         /\ resp'.body.attempts_left = state.attempts_left
         /\ resp'.body.last_result = state.last_result
         /\ resp'.body.last_guess = state.last_guess
         /\ resp'.body.current_secret_id = state.current_secret_id
         /\ resp'.body.can_create_secret = state.can_create_secret
         /\ resp'.body.locked_until = state.locked_until
    ELSE IF state.attempts_left <= 0
    THEN /\ req'[p].pc = "idle"
         /\ resp'.status = 200
         /\ resp'.body.result = "no_attempts"
         /\ resp'.body.attempts_left = state.attempts_left
    ELSE /\ req'[p].pc \in {"sg_mark", "sg_inc"}
         /\ req'[p].attempts_left = state.attempts_left - 1

\* the step is the find_one of get_or_create_state in slot p
FindStep(p) == req[p].pc = "resolve_find" /\ req'[p] # req[p]

\* C13: resolve of a state bound to the active secret, with attempts_left = 0
\* and locked_until later than now, returns the stored state (attempts_left
\* 0, locked_until as stored) and writes nothing
C13_LockedResolveReadsOnly ==
    [][\A p \in Slots :
          LET u == req[p].user
              doc == FindState(game_states, u) IN
          (/\ FindStep(p)
           /\ HasState(game_states, u)
           /\ doc.current_secret_id = req[p].secret_id
           /\ doc.attempts_left = 0
           /\ doc.locked_until # NoTime
           /\ now < doc.locked_until)
          => /\ Returned(p, doc)
             /\ game_states' = game_states
             /\ secrets' = secrets
             /\ ~resp'.wrote]_vars

\* C13 witness: a game-state query has been answered with a running lockout
C13_Witness ==
    /\ resp.op = "game_state"
    /\ resp.status = 200
    /\ resp.body.attempts_left = 0
    /\ resp.body.locked_until # NoTime
    /\ now < resp.body.locked_until

C15_SecretChangeResets ==
    [][\A p \in Slots :
          LET u == req[p].user
              doc == FindState(game_states, u)
              new == FindState(game_states', u) IN
          /\ (/\ FindStep(p)
              /\ HasState(game_states, u)
              /\ doc.current_secret_id # req[p].secret_id)
             => /\ req'[p].pc = "resolve_reset"
                /\ game_states' = game_states
          /\ (req[p].pc = "resolve_reset" /\ req'[p] # req[p])
             => /\ new = [current_secret_id |-> req[p].secret_id,
                          attempts_left |-> 3, last_result |-> NULL,
                          last_guess |-> None, can_create_secret |-> FALSE,
                          locked_until |-> NoTime]
                /\ Returned(p, new)]_vars

\* C15 witness: a game-state query of the user who solved secret 1, whose
\* state allowed them to create a secret, has been answered with the state
\* rebound to a later secret
C15_Witness ==
    /\ resp.op = "game_state"
    /\ resp.status = 200
    /\ resp.wrote
    /\ resp.body.current_secret_id > 1
    /\ resp.body.attempts_left = 3
    /\ ~resp.body.can_create_secret
    /\ \E k \in DOMAIN marks : marks[k].user = resp.user /\ marks[k].secret_id = 1

\* C16: resolve for a user with no stored state inserts exactly one state for
\* that user, bound to the active secret, with attempts_left = 3, locked_until,
\* last_result and last_guess null and can_create_secret false, and returns
\* those values
C16_FirstResolveInserts ==
    [][\A p \in Slots :
          LET u == req[p].user
              fresh == [current_secret_id |-> req[p].secret_id,
                        attempts_left |-> 3, last_result |-> NULL,
                        last_guess |-> None, can_create_secret |-> FALSE,
                        locked_until |-> NoTime] IN
          /\ (FindStep(p) /\ ~HasState(game_states, u))
             => /\ req'[p].pc = "resolve_insert"
                /\ game_states' = game_states
          /\ (/\ req[p].pc = "resolve_insert"
              /\ req'[p] # req[p]
              /\ ~HasState(game_states, u))
             => /\ game_states' = [game_states EXCEPT ![u] = <<fresh>>]
                /\ req'[p].pc = "resolve_index"
          /\ (req[p].pc = "resolve_index" /\ req'[p] # req[p])
             => /\ game_states' = game_states
                /\ Returned(p, fresh)]_vars

\* C16 witness: a first game-state query of a user has been answered
C16_Witness ==
    /\ resp.op = "game_state"
    /\ resp.status = 200
    /\ resp.wrote
    /\ resp.body.attempts_left = 3
    /\ guessed[resp.user] = NoGuess
    /\ Len(game_states[resp.user]) = 1
    /\ \A k \in DOMAIN marks : marks[k].user # resp.user

\* C17: the store holds at most one game_states document per user
C17_OneStatePerUser == \A u \in Users : Len(game_states[u]) <= 1

\* the step takes a create-secret request of user u: the request goes on to
\* its insert, or the step has answered it
TakesCreateSecret(u) ==
    /\ taken' = taken + 1
    /\ \/ resp'.op = "create_secret" /\ resp'.user = u
       \/ \E p \in Slots : /\ ~InFlight(p)
                           /\ req'[p].op = "create_secret"
                           /\ req'[p].user = u

\* C18: a create-secret of a user with no stored state, or whose state has
\* can_create_secret = false, is answered 403 whatever phrase and hint it
\* carries, and changes neither secrets nor game_states
C18_NoPermissionNoSecret ==
    [][\A u \in Users :
          (/\ TakesCreateSecret(u)
           /\ \/ ~HasState(game_states, u)
              \/ ~FindState(game_states, u).can_create_secret)
          => /\ resp'.op = "create_secret"
             /\ resp'.status = 403
             /\ ~resp'.wrote
             /\ secrets' = secrets
             /\ game_states' = game_states]_vars

\* C18 witness: a user who has a state, without the permission, was refused
C18_Witness ==
    /\ resp.op = "create_secret"
    /\ resp.status = 403
    /\ HasState(game_states, resp.user)

\* the phrases and hints no create-secret may accept: empty after trimming,
\* or a phrase shorter than 3, or a hint shorter than 5 characters
Invalid(new_phrase, hint) ==
    \/ new_phrase = <<>>
    \/ Len(new_phrase) < 3
    \/ hint = <<>>
    \/ Len(hint) < 5

\* C19: a create-secret whose trimmed phrase is empty or shorter than 3, or
\* whose trimmed hint is empty or shorter than 5 characters, never reaches the
\* insert, and no secret it carries is ever stored; a user with the
\* permission is never answered 403, so such a request of theirs is answered
\* 400; and a request answered 400 wrote nothing and leaves its user's
\* can_create_secret true
C19_InvalidInputRejected ==
    /\ \A p \in Slots :
           req[p].pc \in {"cs_insert", "cs_update"}
               => ~Invalid(req[p].new_phrase, req[p].hint)
    /\ \A i \in DOMAIN rotations :
           ~Invalid(secrets[rotations[i].secret_id].secret_phrase,
                    secrets[rotations[i].secret_id].hint)
    /\ (resp.op = "create_secret" /\ resp.status = 400)
           => /\ ~resp.wrote
              /\ HasState(game_states, resp.user)
              /\ FindState(game_states, resp.user).can_create_secret
    /\ (resp.op = "create_secret" /\ resp.status = 403)
           => \/ ~HasState(game_states, resp.user)
              \/ ~FindState(game_states, resp.user).can_create_secret

\* C19 witness: a create-secret of a user with the permission was rejected
\* for its hint of 4 characters
C19_Witness ==
    /\ resp.op = "create_secret"
    /\ resp.status = 400
    /\ resp.body.error = "Hint must be at least 5 characters."

\* C20: a successful create-secret inserts one secret with solved_at null,
\* wrong_guesses 0 and created_by the caller and changes no game state; then
\* it sets the caller's can_create_secret to false, changes nothing else in
\* game_states or secrets, and answers 200 with the id of the new secret
C20_CreateSecretEffect ==
    [][\A p \in Slots :
          LET r == req[p]
              u == req[p].user IN
          /\ (r.pc = "cs_insert" /\ req'[p] # r)
             => /\ secrets' = Append(secrets,
                                     [secret_phrase |-> r.new_phrase,
                                      hint |-> r.hint, created_by |-> u,
                                      wrong_guesses |-> 0, solved_at |-> NoTime])
                /\ game_states' = game_states
                /\ req'[p].pc = "cs_update"
          /\ (r.pc = "cs_update" /\ req'[p] # r)
             => /\ secrets' = secrets
                /\ game_states' =
                       [game_states EXCEPT ![u] =
                           [@ EXCEPT ![1] = [@ EXCEPT !.can_create_secret = FALSE]]]
                /\ resp'.status = 200
                /\ secrets[resp'.body.secret_id].created_by = u
                /\ secrets[resp'.body.secret_id].solved_at = NoTime]_vars

\* C20 witness: a create-secret has succeeded
C20_Witness ==
    /\ resp.op = "create_secret"
    /\ resp.status = 200
    /\ ~FindState(game_states, resp.user).can_create_secret

\* C21: no step removes a secret, and no step sets the solved_at of a solved
\* secret back to null: a solved secret is never the active secret again
C21_SolvedForGood ==
    [][\A i \in DOMAIN secrets :
          /\ i \in DOMAIN secrets'
          /\ secrets[i].solved_at # NoTime
                 => /\ secrets'[i].solved_at # NoTime
                    /\ get_active_secret(secrets') # i]_vars

\* C21 witness: a secret already solved has been marked solved once more
C21_Witness ==
    \E j, k \in DOMAIN marks : j < k /\ marks[j].secret_id = marks[k].secret_id

\* C22: while a solved secret has no successor (no secret is active), no
\* request evaluates a guess on it: none marks it solved or counts a wrong
\* guess on it, whenever the request fetched the secret
C22_NoGuessOnSolvedSecret ==
    [][\A p \in Slots :
          (req[p].pc \in {"sg_mark", "sg_inc"} /\ req'[p] # req[p])
          => \/ secrets[req[p].secret_id].solved_at = NoTime
             \/ ActiveIds(secrets) # {}]_vars

\* C23: a reset taken while a secret is active goes on to its write without
\* changing anything; the write makes the user's state attempts_left = 3,
\* last_guess, last_result and locked_until null, can_create_secret false,
\* bound to the active secret, whatever the state was (none included),
\* changes nothing else, and the answer is 200 with the same values
C23_ResetYieldsFreshState ==
    [][\A p \in Slots :
          LET u == req[p].user
              active == get_active_secret(secrets)
              fresh == [current_secret_id |-> active, attempts_left |-> 3,
                        last_result |-> NULL, last_guess |-> None,
                        can_create_secret |-> FALSE, locked_until |-> NoTime] IN
          /\ (/\ ~InFlight(p)
              /\ req'[p].op = "reset"
              /\ active # NoId)
             => /\ req'[p].pc = "rs_update"
                /\ req'[p].secret_id = active
                /\ game_states' = game_states
                /\ secrets' = secrets
          /\ (req[p].pc = "rs_update" /\ req'[p] # req[p])
             => /\ active # NoId
                /\ game_states' =
                       [game_states EXCEPT ![u] =
                           IF @ = <<>> THEN <<fresh>> ELSE [@ EXCEPT ![1] = fresh]]
                /\ secrets' = secrets
                /\ resp'.status = 200
                /\ resp'.body.current_secret_id = active
                /\ resp'.body.attempts_left = 3
                /\ resp'.body.last_result = NULL
                /\ resp'.body.last_guess = None
                /\ resp'.body.can_create_secret = FALSE
                /\ resp'.body.locked_until = NoTime]_vars

\* C23 witness: a reset of a user locked out by three wrong guesses has been
\* answered
C23_Witness ==
    /\ resp.op = "reset"
    /\ resp.status = 200
    /\ secrets[resp.secret_id].wrong_guesses = 3
    /\ \A v \in Users \ {resp.user} : ~HasState(game_states, v)

\* C24: a reset whose write follows the write of an earlier reset of the same
\* user, with no other write to that user's state between them and the same
\* active secret, leaves game_states and secrets as the first reset left
\* them, and answers with the same state
C24_ResetIdempotent ==
    [][\A p \in Slots :
          LET u == req[p].user IN
          (/\ req[p].pc = "rs_update"
           /\ req'[p] # req[p]
           /\ guessed[u].resets > 0
           /\ FindState(game_states, u).current_secret_id = req[p].secret_id)
          => /\ game_states' = game_states
             /\ secrets' = secrets
             /\ resp'.status = 200
             /\ resp'.body.current_secret_id = FindState(game_states, u).current_secret_id
             /\ resp'.body.attempts_left = FindState(game_states, u).attempts_left
             /\ resp'.body.last_result = FindState(game_states, u).last_result
             /\ resp'.body.last_guess = FindState(game_states, u).last_guess
             /\ resp'.body.can_create_secret = FindState(game_states, u).can_create_secret
             /\ resp'.body.locked_until = FindState(game_states, u).locked_until]_vars

\* C24 witness: a user's second reset in a row has been answered, secret 1
\* being the active secret all along
C24_Witness ==
    /\ resp.op = "reset"
    /\ resp.status = 200
    /\ guessed[resp.user].resets = 2
    /\ Len(secrets) = 1
    /\ secrets[1].solved_at = NoTime

\* C25: for every guess text and every phrase a secret can have (the default
\* phrase, or a phrase create-secret accepted), the comparison of submit-guess
\* gives trim(lowercase(guess)) = trim(lowercase(phrase))
C25_MatchesReference ==
    cmp.pc = "done"
        => (cmp.match <=> Strip(Lower(cmp.guess)) = Strip(Lower(cmp.phrase)))

\* C25 witness: a guess that differs from the phrase in letter case and in
\* surrounding whitespace has matched it
C25_Witness ==
    /\ cmp.pc = "done"
    /\ cmp.match
    /\ Len(cmp.guess) = Len(cmp.phrase) + 2
    /\ Strip(cmp.guess) # cmp.phrase

\* C26: a step changes the stored game state of a user only when it is a step
\* of a request of that same user: no resolve, guess, reset or create-secret
\* of one user changes the state of another
C26_OtherUsersUntouched ==
    [][\A u \in Users :
          game_states'[u] # game_states[u]
              => \E p \in Slots : req[p].user = u /\ req'[p] # req[p]]_vars

\* C26 witness: a request has written a user's state while the other user's
\* stored state, a different one, stayed as it was
C26_Witness ==
    /\ resp.status = 200
    /\ resp.wrote
    /\ \E v \in Users \ {resp.user} :
           /\ HasState(game_states, v)
           /\ HasState(game_states, resp.user)
           /\ FindState(game_states, v).attempts_left
                  # FindState(game_states, resp.user).attempts_left

\* C27: when a database call of get_or_create_state raises, the request goes
\* on (no error is answered) with the state attempts_left = 3, last_result,
\* last_guess and locked_until null and can_create_secret false; and called
\* with no database or no active secret, get_or_create_state returns those
\* same values
C27_ResolveFallsBack ==
    [][/\ \A p \in Slots :
             (/\ faults' = faults + 1
              /\ req[p].pc \in {"resolve_find", "resolve_reset", "resolve_restore",
                                "resolve_insert", "resolve_index"}
              /\ req'[p] # req[p])
             => Returned(p, [current_secret_id |-> req[p].secret_id,
                             attempts_left |-> 3, last_result |-> NULL,
                             last_guess |-> None, can_create_secret |-> FALSE,
                             locked_until |-> NoTime])
       /\ resp'.op = "get_or_create_state"
             => /\ resp'.body.attempts_left = 3
                /\ resp'.body.last_result = NULL
                /\ resp'.body.last_guess = None
                /\ resp'.body.locked_until = NoTime
                /\ resp'.body.can_create_secret = FALSE
                /\ game_states' = game_states
                /\ secrets' = secrets]_vars

\* C27 witness: a game-state query of a user whose stored state has no
\* attempt left was answered with 3 attempts, a database call having raised
C27_Witness ==
    /\ faults > 0
    /\ resp.op = "game_state"
    /\ resp.status = 200
    /\ resp.body.attempts_left = 3
    /\ HasState(game_states, resp.user)
    /\ FindState(game_states, resp.user).attempts_left = 0

\* the step takes a request for one of the handlers ops: the request goes on,
\* or the step has answered it
TakesRequest(ops) ==
    /\ taken' = taken + 1
    /\ \/ resp'.op \in ops
       \/ \E p \in Slots : ~InFlight(p) /\ req'[p].op \in ops

\* C28: a submit-guess or a reset taken while no secret is active is answered
\* 503 and changes neither game_states nor secrets
C28_NoActiveSecretRefused ==
    [][(/\ TakesRequest({"submit_guess", "reset"})
        /\ \A i \in DOMAIN secrets : secrets[i].solved_at # NoTime)
       => /\ resp'.op \in {"submit_guess", "reset"}
          /\ resp'.status = 503
          /\ ~resp'.wrote
          /\ game_states' = game_states
          /\ secrets' = secrets]_vars

\* C28 witness: a reset was answered 503 after the only secret was solved
C28_Witness ==
    /\ resp.op = "reset"
    /\ resp.status = 503
    /\ Len(secrets) = 1
    /\ secrets[1].solved_at # NoTime

\* C29: create_default_secret inserts the default secret only while no secret
\* is active
C29_DefaultOnlyWhenNoneActive ==
    [][\A p \in Slots :
          (req[p].pc = "gs_default_insert" /\ req'[p] # req[p])
          => \A i \in DOMAIN secrets : secrets[i].solved_at # NoTime]_vars

\* C30: two runs that handle the same requests and differ only in the phrases
\* of their secrets send the same responses, as long as every guess matched
\* in both runs or in neither (so also when no guess matches in either run)
C30_ResponsesHidePhrase ==
    (tw.kind # "none" /\ tw.clean) => tw.run[1].resp = tw.run[2].resp

\* C30 witness: the two runs, whose active secrets differ in the last letter
\* of the phrase, have both answered a guess that matches neither phrase
C30_Witness ==
    /\ tw.kind = "letter"
    /\ tw.clean
    /\ tw.steps >= 2
    /\ tw.run[1].resp.status = 200
    /\ tw.run[1].resp.body = tw.run[2].resp.body
    /\ tw.run[1].secrets # tw.run[2].secrets
    /\ \E u \in Users :
           /\ HasState(tw.run[1].game_states, u)
           /\ FindState(tw.run[1].game_states, u).last_result = "incorrect"
           /\ FindState(tw.run[1].game_states, u).attempts_left = 1

\* C31: a step that advances the clock changes no stored game state and no
\* secret; a stored state with attempts_left = 0 and locked_until set is
\* changed only by a step of a request of its own user: the resolve of a
\* game-state query or of a guess submission (the restore, and that only once
\* locked_until has passed, or the reset after a change of secret) or the
\* user's reset
C31_TimeAloneChangesNothing ==
    [][/\ now' # now => game_states' = game_states /\ secrets' = secrets
       /\ \A u \in Users :
             (/\ HasState(game_states, u)
              /\ FindState(game_states, u).attempts_left = 0
              /\ FindState(game_states, u).locked_until # NoTime
              /\ game_states'[u] # game_states[u])
             => \E p \in Slots :
                    /\ req[p].user = u
                    /\ req'[p] # req[p]
                    /\ \/ /\ req[p].op \in {"game_state", "submit_guess"}
                          /\ req[p].pc = "resolve_restore"
                          /\ now >= FindState(game_states, u).locked_until
                       \/ /\ req[p].op \in {"game_state", "submit_guess"}
                          /\ req[p].pc = "resolve_reset"
                       \/ /\ req[p].op = "reset"
                          /\ req[p].pc = "rs_update"]_vars

\* C31 witness: the clock has passed the locked_until of a stored state, which
\* still has attempts_left = 0
C31_Witness ==
    \E u \in Users :
        /\ HasState(game_states, u)
        /\ FindState(game_states, u).attempts_left = 0
        /\ FindState(game_states, u).locked_until # NoTime
        /\ now >= FindState(game_states, u).locked_until

\* C32: a stored state with can_create_secret = TRUE loses the flag only by a
\* step of its own user's create-secret (the write after the insert) or reset;
\* no step of a game-state query or of a guess submission clears it
C32_PermissionKept ==
    [][\A u \in Users :
          (/\ HasState(game_states, u)
           /\ FindState(game_states, u).can_create_secret = TRUE
           /\ ~(/\ HasState(game_states', u)
                /\ FindState(game_states', u).can_create_secret = TRUE))
          => \E p \in Slots :
                 /\ req[p].user = u
                 /\ req'[p] # req[p]
                 /\ \/ req[p].op = "create_secret" /\ req[p].pc = "cs_update"
                    \/ req[p].op = "reset" /\ req[p].pc = "rs_update"]_vars

\* C33: as long as the secret inserted by the latest successful create-secret
\* is not solved, it is the secret get_active_secret returns
C33_CreatedSecretIsActive ==
    \A k \in 1..Len(secrets) :
        (/\ secrets[k].created_by \in Users
         /\ \A j \in (k + 1)..Len(secrets) : secrets[j].created_by \notin Users
         /\ secrets[k].solved_at = NoTime)
        => get_active_secret(secrets) = k

\* C34: a stored state with can_create_secret = TRUE is bound to a secret
\* whose solved_at is set, also when the update of mark_secret_solved failed
C34_PermissionImpliesSolved ==
    \A u \in Users :
        (/\ HasState(game_states, u)
         /\ FindState(game_states, u).can_create_secret = TRUE
         /\ FindState(game_states, u).current_secret_id \in DOMAIN secrets)
        => secrets[FindState(game_states, u).current_secret_id].solved_at # NoTime

\* C35: while the stored state of a user is locked out on the active secret
\* (attempts_left = 0, locked_until in the future), no step of a guess
\* submission of that user changes the stored state or any secret, also when
\* a store call of the resolve failed and the default state was returned
C35_LockoutSurvivesFailedRead ==
    [][\A p \in Slots :
          LET u == req[p].user IN
          (/\ req[p].op = "submit_guess"
           /\ req'[p] # req[p]
           /\ HasState(game_states, u)
           /\ FindState(game_states, u).attempts_left = 0
           /\ FindState(game_states, u).locked_until # NoTime
           /\ now < FindState(game_states, u).locked_until
           /\ FindState(game_states, u).current_secret_id = req[p].secret_id)
          => /\ game_states'[u] = game_states[u]
             /\ secrets' = secrets]_vars

\* C36: every stored state with attempts_left = 0 has locked_until set,
\* whichever request brought the counter to 0
C36_ZeroAttemptsIsLocked ==
    \A u \in Users :
        (/\ HasState(game_states, u)
         /\ FindState(game_states, u).attempts_left = 0)
        => FindState(game_states, u).locked_until # NoTime

\* C37: no step lowers the wrong_guesses of a secret, and no step changes the
\* wrong_guesses of a secret whose solved_at is set, whichever request takes it
C37_WrongGuessesFrozenOnceSolved ==
    [][\A k \in DOMAIN secrets :
          /\ k \in DOMAIN secrets'
          /\ secrets'[k].wrong_guesses >= secrets[k].wrong_guesses
          /\ secrets[k].solved_at # NoTime
                => secrets'[k].wrong_guesses = secrets[k].wrong_guesses]_vars

\* the answer of the ML client reports success
ReportsSuccess(a) == a.kind = "json" /\ a.transcription_success = TRUE

\* the attempt failed: a request error, or a success flag that is false
AttemptFailed(a) ==
    \/ a.kind = "request_error"
    \/ a.kind = "json" /\ a.transcription_success = FALSE

C39_FailedTranscriptionIsAnError ==
    (audio.pc = "idle" /\ audio.file = "audio" /\ audio.status # 0)
    => LET ok == \E i \in DOMAIN audio.answers : ReportsSuccess(audio.answers[i]) IN
       /\ ~ok => /\ audio.status # 200
                 /\ "recognized_text" \notin DOMAIN audio.body
       /\ audio.status = 200 => ok

====
